---- MODULE Spec2Model ----
(***************************************************************************)
(* A model of gomapper (Trendyol/gomapper): Map copies a source value into *)
(* a destination of a structurally related type, using reflection.         *)
(*                                                                         *)
(* Go types are rows of a type table (kind, Name(), element, key, fields). *)
(* Go values live in a heap: scalars and structs are held by value, while  *)
(* pointers, slices and maps are addresses of heap cells (0 is nil), so    *)
(* that aliasing between source and destination is observable.            *)
(***************************************************************************)
EXTENDS Integers, Sequences, FiniteSets, TLC

\* ---------------------------------------------------------------- bounds
\* Longest slice / largest map drawn as an input.
MaxLen == 2
\* Deepest nesting of mapValues calls followed before the call stack is
\* taken to be exhausted.
MaxCallDepth == 14

\* ------------------------------------------------------------ type table
Scalar(n) == [kind |-> n, name |-> n, elem |-> "", key |-> "", fields |-> <<>>, len |-> 0]
PtrTo(e) == [kind |-> "ptr", name |-> "", elem |-> e, key |-> "", fields |-> <<>>, len |-> 0]
SliceOf(e) == [kind |-> "slice", name |-> "", elem |-> e, key |-> "", fields |-> <<>>, len |-> 0]
ArrayOf(n, e) == [kind |-> "array", name |-> "", elem |-> e, key |-> "", fields |-> <<>>, len |-> n]
MapOf(k, e) == [kind |-> "map", name |-> "", elem |-> e, key |-> k, fields |-> <<>>, len |-> 0]
StructOf(n, fs) == [kind |-> "struct", name |-> n, elem |-> "", key |-> "", fields |-> fs, len |-> 0]

\* An exported field, an unexported field, an embedded (anonymous) field.
Exp(n, t) == [name |-> n, type |-> t, exported |-> TRUE, anon |-> FALSE]
Unexp(n, t) == [name |-> n, type |-> t, exported |-> FALSE, anon |-> FALSE]
Embedded(n, t, e) == [name |-> n, type |-> t, exported |-> e, anon |-> TRUE]

\* Predeclared types and the unnamed composite types built from them.
BuiltinTypes ==
    ("int" :> Scalar("int")) @@ ("string" :> Scalar("string"))
 @@ ("int64" :> Scalar("int64")) @@ ("uint64" :> Scalar("uint64"))
 @@ ("*int" :> PtrTo("int")) @@ ("*string" :> PtrTo("string"))
 @@ ("[]string" :> SliceOf("string"))

\* The types of tests/common_test.go, package tests.
CommonTypes ==
    ("A" :> StructOf("A", <<Exp("Name", "string"), Unexp("zone", "[]string")>>))
 @@ ("X" :> StructOf("X", <<Exp("Ui64", "uint64"), Unexp("i64", "int64"), Exp("A", "A")>>))
 @@ ("XPointerField" :> StructOf("XPointerField",
        <<Exp("Ui64", "uint64"), Unexp("i64", "int64"), Exp("A", "*A")>>))
 @@ ("*A" :> PtrTo("A"))
 @@ ("B" :> StructOf("B", <<Exp("C", "C")>>))
 @@ ("D" :> StructOf("D", <<Exp("C", "*C")>>))
 @@ ("*C" :> PtrTo("C"))
 @@ ("*D" :> PtrTo("D"))
 @@ ("E" :> StructOf("E", <<Exp("Name", "Z")>>))
 @@ ("F" :> StructOf("F", <<Exp("Name", "*string")>>))
 @@ ("C" :> StructOf("C", <<Unexp("address", "string")>>))
 @@ ("Y" :> StructOf("Y", <<Exp("In", "B")>>))
 @@ ("Z" :> StructOf("Z", <<Exp("In", "*D")>>))

\* The types of tests/common_test.go, package mapkind.
MapkindTypes ==
    ("mapkind.A" :> StructOf("A", <<Exp("MapX", "map[string]mapkind.C")>>))
 @@ ("mapkind.B" :> StructOf("B", <<Exp("MapX", "map[string]mapkind.D")>>))
 @@ ("mapkind.C" :> StructOf("C", <<Exp("Name", "string")>>))
 @@ ("mapkind.D" :> StructOf("D", <<Exp("Name", "string")>>))
 @@ ("mapkind.E" :> StructOf("E", <<Exp("Name", "int")>>))
 @@ ("mapkind.F" :> StructOf("F", <<Exp("MapX", "map[string]mapkind.E")>>))
 @@ ("mapkind.G" :> StructOf("G", <<Exp("MapX", "map[int]mapkind.E")>>))
 @@ ("map[string]mapkind.C" :> MapOf("string", "mapkind.C"))
 @@ ("map[string]mapkind.D" :> MapOf("string", "mapkind.D"))
 @@ ("map[string]mapkind.E" :> MapOf("string", "mapkind.E"))
 @@ ("map[int]mapkind.E" :> MapOf("int", "mapkind.E"))

\* The types of tests/slice_test.go (Count, a second *int field of RoleX and
\* RoleY, is left out: it behaves as Size does).
SliceTypes ==
    ("FlavorX" :> StructOf("FlavorX", <<Exp("Type", "string"), Exp("Roles", "*[]RoleX")>>))
 @@ ("FlavorY" :> StructOf("FlavorY", <<Exp("Type", "string"), Exp("Roles", "*[]RoleY")>>))
 @@ ("FlavorWithNonPointerRoleSlice" :> StructOf("FlavorWithNonPointerRoleSlice",
        <<Exp("Type", "string"), Exp("Roles", "[]RoleX")>>))
 @@ ("RoleX" :> StructOf("RoleX", <<Exp("Size", "*int")>>))
 @@ ("RoleY" :> StructOf("RoleY", <<Exp("Size", "*int")>>))
 @@ ("[]RoleX" :> SliceOf("RoleX")) @@ ("[]RoleY" :> SliceOf("RoleY"))
 @@ ("*[]RoleX" :> PtrTo("[]RoleX")) @@ ("*[]RoleY" :> PtrTo("[]RoleY"))

\* Further inputs: maps keyed by pointers (unnamed key types), an array,
\* structs whose field is a pointer to a scalar where another struct has a
\* slice or a map, structs with embedded fields, and slices and maps of
\* structs whose pointer fields have pointees of different kinds.
ExtraTypes ==
    ("ext.P" :> StructOf("P", <<Exp("MapX", "map[*int]mapkind.E")>>))
 @@ ("ext.Q" :> StructOf("Q", <<Exp("MapX", "map[*string]mapkind.E")>>))
 @@ ("map[*int]mapkind.E" :> MapOf("*int", "mapkind.E"))
 @@ ("map[*string]mapkind.E" :> MapOf("*string", "mapkind.E"))
 @@ ("[2]int" :> ArrayOf(2, "int"))
 @@ ("ext.K" :> StructOf("K", <<Exp("Type", "string"), Exp("Roles", "*int")>>))
 @@ ("ext.M" :> StructOf("M", <<Exp("MapX", "*string")>>))
 @@ ("Base" :> StructOf("Base", <<Exp("ID", "int")>>))
 @@ ("*Base" :> PtrTo("Base"))
 @@ ("Emb" :> StructOf("Emb", <<Embedded("Base", "*Base", TRUE), Exp("Title", "string")>>))
 @@ ("Flat" :> StructOf("Flat", <<Exp("ID", "int"), Exp("Title", "string")>>))
 @@ ("EmbD" :> StructOf("EmbD", <<Embedded("Base", "Base", TRUE), Exp("Title", "string")>>))
 @@ ("FlatB" :> StructOf("FlatB", <<Exp("Base", "Base"), Exp("ID", "int"),
                                   Exp("Title", "string")>>))
 @@ ("Mid" :> StructOf("Mid", <<Embedded("Base", "*Base", TRUE), Exp("Note", "string")>>))
 @@ ("*Mid" :> PtrTo("Mid"))
 @@ ("Emb2" :> StructOf("Emb2", <<Embedded("Mid", "*Mid", TRUE), Exp("Title", "string")>>))
 @@ ("RoleW" :> StructOf("RoleW", <<Exp("Size", "*string")>>))
 @@ ("[]RoleW" :> SliceOf("RoleW"))
 @@ ("FlavorW" :> StructOf("FlavorW", <<Exp("Type", "string"), Exp("Roles", "[]RoleW")>>))
 @@ ("map[string]RoleX" :> MapOf("string", "RoleX"))
 @@ ("map[string]RoleW" :> MapOf("string", "RoleW"))
 @@ ("ext.S" :> StructOf("S", <<Exp("MapX", "map[string]RoleX")>>))
 @@ ("ext.T" :> StructOf("T", <<Exp("MapX", "map[string]RoleW")>>))
 @@ ("RoleV" :> StructOf("RoleV", <<Exp("Size", "*string"), Exp("Count", "int")>>))
 @@ ("map[string]RoleV" :> MapOf("string", "RoleV"))
 @@ ("ext.R" :> StructOf("R", <<Exp("MapX", "map[string]RoleV")>>))
 @@ ("Pick" :> StructOf("Pick", <<Exp("Base", "*string"), Exp("ID", "int")>>))
 @@ ("map[string]Emb2" :> MapOf("string", "Emb2"))
 @@ ("map[string]Pick" :> MapOf("string", "Pick"))
 @@ ("ext.X" :> StructOf("X", <<Exp("MapX", "map[string]Emb2")>>))
 @@ ("ext.Y" :> StructOf("Y", <<Exp("MapX", "map[string]Pick")>>))
 @@ ("*Flat" :> PtrTo("Flat"))
 @@ ("Holder" :> StructOf("Holder", <<Exp("ID", "int"), Exp("Inner", "*Flat")>>))
 @@ ("[]mapkind.C" :> SliceOf("mapkind.C")) @@ ("[]mapkind.E" :> SliceOf("mapkind.E"))
 @@ ("ext.U" :> StructOf("U", <<Exp("Items", "[]mapkind.C")>>))
 @@ ("ext.V" :> StructOf("V", <<Exp("Items", "[]mapkind.E")>>))

\* Struct types that contain a pointer to, a slice of or a map of themselves.
SelfReferentialTypes ==
    ("Node" :> StructOf("Node", <<Exp("Next", "*Node")>>))
 @@ ("NodeY" :> StructOf("NodeY", <<Exp("Next", "*NodeY")>>))
 @@ ("Tree" :> StructOf("Tree", <<Exp("Children", "[]Tree")>>))
 @@ ("TreeY" :> StructOf("TreeY", <<Exp("Children", "[]TreeY")>>))
 @@ ("[]Tree" :> SliceOf("Tree")) @@ ("[]TreeY" :> SliceOf("TreeY"))
 @@ ("Dir" :> StructOf("Dir", <<Exp("Sub", "map[string]Dir")>>))
 @@ ("DirY" :> StructOf("DirY", <<Exp("Sub", "map[string]DirY")>>))
 @@ ("map[string]Dir" :> MapOf("string", "Dir"))
 @@ ("map[string]DirY" :> MapOf("string", "DirY"))

DeclaredTypes ==
    BuiltinTypes @@ CommonTypes @@ MapkindTypes @@ SliceTypes @@ ExtraTypes
    @@ SelfReferentialTypes

\* The declared types and, for each, the pointer type to it (&x, reflect.New).
TypeTable ==
    LET WithPointers(d) ==
            d @@ [p \in {"*" \o t : t \in DOMAIN d} |->
                    PtrTo(CHOOSE t \in DOMAIN d : p = "*" \o t)]
    IN WithPointers(DeclaredTypes)

TypeIds == DOMAIN TypeTable
Kind(t) == TypeTable[t].kind
Name(t) == TypeTable[t].name
Elem(t) == TypeTable[t].elem
Key(t) == TypeTable[t].key
NumField(t) == Len(TypeTable[t].fields)
Field(t, i) == TypeTable[t].fields[i]
ArrayLen(t) == TypeTable[t].len
\* reflect.PtrTo: the pointer type to t (its row is in the table).
PtrToType(t) == "*" \o t

ScalarKinds == {"int", "string", "int64", "uint64"}

\* ---------------------------------------------------------------- values
\* Scalars are small integers (a string is the index of its text); a struct
\* is the tuple of its field values; a pointer, a slice or a map is the
\* address of a heap cell, or 0 when nil. A slice's cell is the tuple of its
\* elements, a map's cell a function from key values to element values.
ScalarValues == {0, 1}

RECURSIVE Zero(_)
Zero(t) ==
    LET Of(ty) ==
            IF ty.kind = "struct"
            THEN [i \in 1..Len(ty.fields) |-> Zero(ty.fields[i].type)]
            ELSE IF ty.kind = "array" THEN [i \in 1..ty.len |-> Zero(ty.elem)]
            ELSE 0
    IN Of(TypeTable[t])

\* Input values are drawn as trees and then laid out in the heap. A pointer
\* tree is <<>> (nil) or <<pointee>>; slice and map trees say whether they
\* are nil and carry their items. The operators below take the row ty of
\* the type in the type table.
RECURSIVE Trees(_, _)
StructTrees(ty, d) ==
    LET RECURSIVE Upto(_)
        Upto(n) ==
            IF n = 0 THEN {<<>>}
            ELSE {Append(p, x) : p \in Upto(n - 1), x \in Trees(ty.fields[n].type, d)}
    IN Upto(Len(ty.fields))

SliceTrees(ty, d) ==
    LET RECURSIVE OfLen(_)
        OfLen(n) ==
            IF n = 0 THEN {<<>>}
            ELSE {Append(p, x) : p \in OfLen(n - 1), x \in Trees(ty.elem, d)}
    IN {[nil |-> TRUE, items |-> <<>>]}
       \cup {[nil |-> FALSE, items |-> s] : s \in UNION {OfLen(n) : n \in 0..MaxLen}}

KeyTrees(t) == IF Kind(t) = "ptr" THEN {<<0>>} ELSE ScalarValues

MapTrees(ty, d) ==
    {[nil |-> TRUE, items |-> <<>>]}
    \cup {[nil |-> FALSE, items |-> f] :
            f \in UNION {[K -> Trees(ty.elem, d)] :
                            K \in {S \in SUBSET KeyTrees(ty.key) : Cardinality(S) <= MaxLen}}}

Trees(t, d) ==
    LET Of(ty) ==
            CASE ty.kind \in ScalarKinds -> ScalarValues
              [] ty.kind = "struct" -> StructTrees(ty, d)
              [] ty.kind = "array" -> [1..ty.len -> Trees(ty.elem, d)]
              [] ty.kind = "ptr" ->
                    IF d = 0 THEN {<<>>}
                    ELSE {<<>>} \cup {<<x>> : x \in Trees(ty.elem, d - 1)}
              [] ty.kind = "slice" ->
                    IF d = 0 THEN {[nil |-> TRUE, items |-> <<>>]} ELSE SliceTrees(ty, d - 1)
              [] ty.kind = "map" ->
                    IF d = 0 THEN {[nil |-> TRUE, items |-> <<>>]} ELSE MapTrees(ty, d - 1)
    IN Of(TypeTable[t])

\* The elements of a finite set in a fixed order.
RECURSIVE SetToSeq(_)
SetToSeq(S) ==
    IF S = {} THEN <<>>
    ELSE LET Cons(x) == <<x>> \o SetToSeq(S \ {x}) IN Cons(CHOOSE y \in S : TRUE)

\* Alloc lays a tree out in the heap h: [h |-> the new heap, v |-> the value].
RECURSIVE Alloc(_, _, _)
RECURSIVE AllocSeq(_, _, _)
AllocSeq(h, ts, trees) ==
    IF trees = <<>> THEN [h |-> h, v |-> <<>>]
    ELSE LET Cons(first, rest) == [h |-> rest.h, v |-> <<first.v>> \o rest.v]
         IN CHOOSE r \in {Cons(first, AllocSeq(first.h, Tail(ts), Tail(trees))) :
                             first \in {Alloc(h, Head(ts), Head(trees))}} : TRUE

New(h, cell) == [h |-> Append(h, cell), v |-> Len(h) + 1]

Alloc(h, t, tree) ==
    LET Box(r) == New(r.h, r.v)
        Cell(n, kr, vr) ==
            New(vr.h, [k \in {kr.v[i] : i \in 1..n} |->
                         vr.v[CHOOSE i \in 1..n : kr.v[i] = k]])
        Values(ty, ks, kr) ==
            Cell(Len(ks), kr,
                 AllocSeq(kr.h, [i \in 1..Len(ks) |-> ty.elem],
                          [i \in 1..Len(ks) |-> tree.items[ks[i]]]))
        Keys(ty, ks) == Values(ty, ks, AllocSeq(h, [i \in 1..Len(ks) |-> ty.key], ks))
        Of(ty) ==
            CASE ty.kind \in ScalarKinds -> [h |-> h, v |-> tree]
              [] ty.kind = "struct" ->
                    AllocSeq(h, [i \in 1..Len(ty.fields) |-> ty.fields[i].type], tree)
              [] ty.kind = "array" -> AllocSeq(h, [i \in 1..ty.len |-> ty.elem], tree)
              [] ty.kind = "ptr" ->
                    IF tree = <<>> THEN [h |-> h, v |-> 0]
                    ELSE Box(Alloc(h, ty.elem, tree[1]))
              [] ty.kind = "slice" ->
                    IF tree.nil THEN [h |-> h, v |-> 0]
                    ELSE Box(AllocSeq(h, [i \in 1..Len(tree.items) |-> ty.elem], tree.items))
              [] ty.kind = "map" ->
                    IF tree.nil THEN [h |-> h, v |-> 0]
                    ELSE Keys(ty, SetToSeq(DOMAIN tree.items))
    IN Of(TypeTable[t])

\* ------------------------------------------------------------ reflection
\* Deepest chain of embedded structs followed when a promoted field is
\* looked up by name.
MaxEmbed == 2

\* The struct type an embedded field promotes fields from ("" if none).
EmbStruct(ft) ==
    LET Of(ty) ==
            IF ty.kind = "struct" THEN ft
            ELSE IF ty.kind = "ptr" /\ Kind(ty.elem) = "struct" THEN ty.elem
            ELSE ""
    IN Of(TypeTable[ft])

\* The index paths of the fields called name found k embeddings deep.
RECURSIVE PathsAt(_, _, _)
PathsAt(t, name, k) ==
    LET Below(ty, i, e) ==
            IF ty.fields[i].anon /\ e # ""
            THEN {<<i>> \o p : p \in PathsAt(e, name, k - 1)} ELSE {}
        Of(ty) ==
            IF k = 0
            THEN {<<i>> : i \in {j \in 1..Len(ty.fields) : ty.fields[j].name = name}}
            ELSE UNION {Below(ty, i, EmbStruct(ty.fields[i].type)) : i \in 1..Len(ty.fields)}
    IN Of(TypeTable[t])

\* reflect.Type.FieldByName: the index path of the field (direct or
\* promoted), found at the shallowest depth where the name occurs, and only
\* if it occurs once there; <<>> if there is none.
TypeFieldByName(t, name) ==
    LET Unique(ps) == IF Cardinality(ps) = 1 THEN CHOOSE q \in ps : TRUE ELSE <<>>
        Shallowest(paths, ks) ==
            IF ks = {} THEN <<>>
            ELSE Unique(paths[CHOOSE x \in ks : \A y \in ks : x <= y])
        Among(paths) == Shallowest(paths, {k \in 0..MaxEmbed : paths[k] # {}})
    IN Among([k \in 0..MaxEmbed |-> PathsAt(t, name, k)])

\* reflect.Value.FieldByIndex on the struct value v of type t: the field's
\* type and value, or a panic when the path leads through a nil embedded
\* pointer. A path of one index is a plain Field(i).
RECURSIVE FieldByIndexFrom(_, _, _, _, _)
FieldByIndexFrom(h, t, v, path, first) ==
    LET Of(ty) ==
            IF ~first /\ ty.kind = "ptr" /\ Kind(ty.elem) = "struct"
            THEN IF v = 0 THEN [panic |-> TRUE, t |-> t, v |-> v]
                 ELSE FieldByIndexFrom(h, ty.elem, h[v], path, TRUE)
            ELSE FieldByIndexFrom(h, ty.fields[Head(path)].type, v[Head(path)],
                                  Tail(path), FALSE)
    IN IF path = <<>> THEN [panic |-> FALSE, t |-> t, v |-> v]
       ELSE Of(TypeTable[t])

FieldByIndex(h, t, v, path) == FieldByIndexFrom(h, t, v, path, TRUE)

\* isReflectValNil: a pointer-kinded value that is nil.
IsReflectValNil(t, v) == Kind(t) = "ptr" /\ v = 0

\* isAnyNil on a boxed value x = [t |-> type, v |-> value]; the untyped nil
\* has t = "nil". reflect.Value.IsNil panics on an array.
NilKinds == {"ptr", "map", "array", "chan", "slice"}
IsAnyNil(x) ==
    IF x.t = "nil" THEN [panic |-> FALSE, nil |-> TRUE]
    ELSE IF Kind(x.t) \in NilKinds
         THEN IF Kind(x.t) = "array" THEN [panic |-> TRUE, nil |-> FALSE]
              ELSE [panic |-> FALSE, nil |-> x.v = 0]
    ELSE [panic |-> FALSE, nil |-> FALSE]

\* ---------------------------------------------------------------- mapper
\* Every copier returns [err, v, h, log]: the error ("nil" for none, "panic"
\* for a reflection fault that unwinds, "stack overflow" when the recursion
\* does not end), the value the destination slot holds afterwards, the heap
\* afterwards and the calls made, in the order they returned. cx carries
\* Option.Exact, the order in which reflect's MapKeys lists the keys and the
\* compatibility probes that are running.
NoErr == "nil"
ErrKind(k) == "error mapping values: dest kind: " \o k
ErrIncompatible == "error mapping values: types are not compatible"
ErrCanNotSet == "error mapping field: Field can not set"
ErrNoField == "error mapping field: does not contain related field"
ErrKeyTypes == "error mapping maps: map key types are not equal"
Panic == "panic"
StackOverflow == "stack overflow"

Ret(err, v, h, log) == [err |-> err, v |-> v, h |-> h, log |-> log]

Event(fn, name, st, sv, dt, bv, r, cx) ==
    [fn |-> fn, name |-> name, st |-> st, sv |-> sv, dt |-> dt, bv |-> bv,
     av |-> r.v, err |-> r.err, exact |-> cx.exact]

\* The keys of a map cell in the order MapKeys lists them.
MapKeys(cell, cx) ==
    LET Order(ks) == IF cx.rev THEN [i \in 1..Len(ks) |-> ks[Len(ks) + 1 - i]] ELSE ks
    IN Order(SetToSeq(DOMAIN cell))

RECURSIVE MapValues(_, _, _, _, _, _, _, _)
RECURSIVE MapFieldsFrom(_, _, _, _, _, _, _, _, _)
RECURSIVE MapToPtr(_, _, _, _, _, _, _)
RECURSIVE MapToStruct(_, _, _, _, _, _, _)
RECURSIVE MapToSlice(_, _, _, _, _, _, _)
RECURSIVE MapToMap(_, _, _, _, _, _, _)
RECURSIVE MapField(_, _, _, _, _, _, _, _)
RECURSIVE MapSliceFrom(_, _, _, _, _, _, _, _, _)
RECURSIVE MapSlice(_, _, _, _, _, _, _)
RECURSIVE MapMapFrom(_, _, _, _, _, _, _, _, _, _)
RECURSIVE MapMap(_, _, _, _, _, _, _)
RECURSIVE VerifySliceTypesAreCompatible(_, _, _, _, _)
RECURSIVE VerifyMapElemTypesAreCompatible(_, _, _, _, _)

\* valueIsContainedInNilEmbeddedType: [panic, nil].
ValueIsContainedInNilEmbeddedType(h, st, sv, fieldName) ==
    LET Parent(p) == [panic |-> p.panic, nil |-> ~p.panic /\ IsReflectValNil(p.t, p.v)]
        At(ix) ==
            IF Len(ix) > 1
            THEN Parent(FieldByIndex(h, st, sv, SubSeq(ix, 1, Len(ix) - 1)))
            ELSE [panic |-> FALSE, nil |-> FALSE]
    IN At(TypeFieldByName(st, fieldName))

\* Value.CanSet of a field of a settable struct: the field is exported.
CanSetAlways(f) == TRUE
CanSet(f) == f.exported

\* What mapField returns for a field that can not be set.
UnsettableField(exact) == IF exact THEN ErrCanNotSet ELSE NoErr

\* What mapField returns for a field the source does not have.
MissingFieldSkipped(exact) == NoErr
MissingField(exact) == IF exact THEN ErrNoField ELSE NoErr

\* A mapField that in loose mode leaves the destination field alone when the
\* source field holds its zero value.
MapFieldFoundKeepingOnZero(h, f, dvi, cx, d, sf) ==
    IF sf.panic THEN Ret(Panic, dvi, h, <<>>)
    ELSE IF ~cx.exact /\ sf.v = Zero(sf.t) THEN Ret(NoErr, dvi, h, <<>>)
    ELSE MapValues(h, sf.t, sf.v, f.type, dvi, TRUE, cx, d - 1)

\* mapField once the source field is found: sf is FieldByIndex's result.
MapFieldFound(h, f, dvi, cx, d, sf) ==
    IF sf.panic THEN Ret(Panic, dvi, h, <<>>)
    ELSE MapValues(h, sf.t, sf.v, f.type, dvi, TRUE, cx, d - 1)

\* mapField from the lookup of the field by name on: ix is its index path.
MapFieldLookup(h, st, sv, f, dvi, cx, d, ix) ==
    IF ix = <<>> THEN Ret(MissingField(cx.exact), dvi, h, <<>>)
    ELSE MapFieldFound(h, f, dvi, cx, d, FieldByIndex(h, st, sv, ix))

\* mapField for a named field: emb says whether it lies in a nil embedded
\* pointer.
MapFieldNamed(h, st, sv, f, dvi, cx, d, emb) ==
    IF emb.panic THEN Ret(Panic, dvi, h, <<>>)
    ELSE IF emb.nil THEN Ret(NoErr, dvi, h, <<>>)
    ELSE MapFieldLookup(h, st, sv, f, dvi, cx, d, TypeFieldByName(st, f.name))

\* A mapField that looks an embedded destination field up by its name on the
\* source, as it does a named one.
MapFieldValueByName(h, st, sv, f, dvi, cx, d) ==
    IF ~CanSet(f) THEN Ret(UnsettableField(cx.exact), dvi, h, <<>>)
    ELSE MapFieldNamed(h, st, sv, f, dvi, cx, d,
                       ValueIsContainedInNilEmbeddedType(h, st, sv, f.name))

\* mapField on the destination field f holding dvi: v is what it holds
\* afterwards.
MapFieldValue(h, st, sv, f, dvi, cx, d) ==
    IF ~CanSet(f) THEN Ret(UnsettableField(cx.exact), dvi, h, <<>>)
    ELSE IF f.anon THEN MapValues(h, st, sv, f.type, dvi, TRUE, cx, d - 1)
    ELSE MapFieldNamed(h, st, sv, f, dvi, cx, d,
                       ValueIsContainedInNilEmbeddedType(h, st, sv, f.name))

\* mapField: field i of the destination struct dv (type dt) from the source
\* struct sv (type st). v is the whole destination struct afterwards.
MapField(h, st, sv, dt, dv, i, cx, d) ==
    LET Done(f, r) ==
            Ret(r.err, [dv EXCEPT ![i] = r.v], r.h,
                Append(r.log, Event("mapField", f.name, st, sv, dt, dv[i], r, cx)))
    IN Done(Field(dt, i), MapFieldValue(h, st, sv, Field(dt, i), dv[i], cx, d))

\* The field loop as it stood in earlier revisions: in loose mode an error
\* of mapField is dropped and the loop goes on.
MapFieldsFromDroppingErrors(h, st, sv, dt, dv, i, cx, d, log) ==
    IF i > NumField(dt) THEN Ret(NoErr, dv, h, log)
    ELSE LET Then(r) ==
                 IF r.err # NoErr /\ cx.exact THEN Ret(r.err, r.v, r.h, log \o r.log)
                 ELSE MapFieldsFrom(r.h, st, sv, dt, r.v, i + 1, cx, d, log \o r.log)
         IN Then(MapField(h, st, sv, dt, dv, i, cx, d))

\* The loop of mapValues over the destination's fields from field i on: the
\* first error of mapField ends it.
MapFieldsFrom(h, st, sv, dt, dv, i, cx, d, log) ==
    IF i > NumField(dt) THEN Ret(NoErr, dv, h, log)
    ELSE LET Then(r) ==
                 IF r.err # NoErr THEN Ret(r.err, r.v, r.h, log \o r.log)
                 ELSE MapFieldsFrom(r.h, st, sv, dt, r.v, i + 1, cx, d, log \o r.log)
         IN Then(MapField(h, st, sv, dt, dv, i, cx, d))

\* A pointer branch that sets the slot to nil when the source is nil.
MapToPtrClearingOnNil(h, st, sv, dt, dv, cx, d) ==
    IF IsReflectValNil(st, sv) THEN Ret(NoErr, 0, h, <<>>)
    ELSE LET Set(zeroPtr, r) ==
                 IF r.err # NoErr THEN Ret(r.err, dv, r.h, r.log)
                 ELSE Ret(NoErr, zeroPtr.v, [r.h EXCEPT ![zeroPtr.v] = r.v], r.log)
             Fill(et, zeroPtr) ==
                 Set(zeroPtr, MapValues(zeroPtr.h, st, sv, et, zeroPtr.h[zeroPtr.v],
                                        TRUE, cx, d - 1))
             Make(et) == Fill(et, New(h, Zero(et)))
         IN Make(Elem(dt))

\* A pointer branch that sets the slot to the new pointee before it fills
\* it, so that the slot is set when the filling fails too.
MapToPtrSettingFirst(h, st, sv, dt, dv, cx, d) ==
    IF IsReflectValNil(st, sv) THEN Ret(NoErr, dv, h, <<>>)
    ELSE LET Set(zeroPtr, r) ==
                 Ret(r.err, zeroPtr.v, [r.h EXCEPT ![zeroPtr.v] = r.v], r.log)
             Fill(et, zeroPtr) ==
                 Set(zeroPtr, MapValues(zeroPtr.h, st, sv, et, zeroPtr.h[zeroPtr.v],
                                        TRUE, cx, d - 1))
             Make(et) == Fill(et, New(h, Zero(et)))
         IN Make(Elem(dt))

\* mapValues, destination kind Ptr: a nil source pointer leaves the slot as
\* it is; otherwise a new pointee is filled and the slot set to point at it.
MapToPtr(h, st, sv, dt, dv, cx, d) ==
    IF IsReflectValNil(st, sv) THEN Ret(NoErr, dv, h, <<>>)
    ELSE LET Set(zeroPtr, r) ==
                 IF r.err # NoErr THEN Ret(r.err, dv, r.h, r.log)
                 ELSE Ret(NoErr, zeroPtr.v, [r.h EXCEPT ![zeroPtr.v] = r.v], r.log)
             Fill(et, zeroPtr) ==
                 Set(zeroPtr, MapValues(zeroPtr.h, st, sv, et, zeroPtr.h[zeroPtr.v],
                                        TRUE, cx, d - 1))
             Make(et) == Fill(et, New(h, Zero(et)))
         IN Make(Elem(dt))

\* The source as the struct branch takes it: a nil pointer stands for a zero
\* value of its pointee, a pointer is dereferenced. [t, v].
SourceStruct(h, st, sv) ==
    LET Of(sty) ==
            IF sty.kind # "ptr" THEN [t |-> st, v |-> sv]
            ELSE [t |-> sty.elem, v |-> IF sv = 0 THEN Zero(sty.elem) ELSE h[sv]]
    IN Of(TypeTable[st])

\* The source as the slice and map branches take it: a pointer is
\* dereferenced. [t, v].
Indirect(h, st, sv) ==
    LET Of(sty) ==
            IF sty.kind # "ptr" THEN [t |-> st, v |-> sv]
            ELSE [t |-> sty.elem, v |-> h[sv]]
    IN Of(TypeTable[st])

\* mapValues, destination kind Struct, on the source s = [t, v].
MapStructOf(h, s, dt, dv, cx, d) ==
    IF Kind(s.t) # "struct" THEN Ret(ErrKind("struct"), dv, h, <<>>)
    ELSE MapFieldsFrom(h, s.t, s.v, dt, dv, 1, cx, d, <<>>)

\* A struct branch for which a nil source pointer is a no-op, as it is for
\* the other branches.
MapToStructSkippingNil(h, st, sv, dt, dv, cx, d) ==
    IF IsReflectValNil(st, sv) THEN Ret(NoErr, dv, h, <<>>)
    ELSE MapStructOf(h, SourceStruct(h, st, sv), dt, dv, cx, d)

MapToStruct(h, st, sv, dt, dv, cx, d) ==
    MapStructOf(h, SourceStruct(h, st, sv), dt, dv, cx, d)

\* mapValues, destination kind Slice: a nil source pointer is a no-op.
MapSliceOf(h, s, dt, dv, cx, d) ==
    IF Kind(s.t) # "slice" THEN Ret(ErrKind("slice"), dv, h, <<>>)
    ELSE MapSlice(h, s.t, s.v, dt, dv, cx, d)

MapToSlice(h, st, sv, dt, dv, cx, d) ==
    IF IsReflectValNil(st, sv) THEN Ret(NoErr, dv, h, <<>>)
    ELSE MapSliceOf(h, Indirect(h, st, sv), dt, dv, cx, d)

\* mapValues, destination kind Map: a nil source pointer is a no-op.
MapMapOf(h, s, dt, dv, cx, d) ==
    IF Kind(s.t) # "map" THEN Ret(ErrKind("map"), dv, h, <<>>)
    ELSE MapMap(h, s.t, s.v, dt, dv, cx, d)

MapToMap(h, st, sv, dt, dv, cx, d) ==
    IF IsReflectValNil(st, sv) THEN Ret(NoErr, dv, h, <<>>)
    ELSE MapMapOf(h, Indirect(h, st, sv), dt, dv, cx, d)

\* mapValues past its fast path: one branch per destination kind.
MapValuesByKind(h, st, sv, dt, dv, cx, d) ==
    IF Kind(dt) = "ptr" THEN MapToPtr(h, st, sv, dt, dv, cx, d)
    ELSE IF Kind(dt) = "struct" THEN MapToStruct(h, st, sv, dt, dv, cx, d)
    ELSE IF Kind(dt) = "slice" THEN MapToSlice(h, st, sv, dt, dv, cx, d)
    ELSE IF Kind(dt) = "map" THEN MapToMap(h, st, sv, dt, dv, cx, d)
    ELSE Ret(ErrIncompatible, dv, h, <<>>)

\* A mapValues that takes its fast path for the root pair only.
MapValuesFastPathAtRootOnly(h, st, sv, dt, dv, canSet, cx, d) ==
    IF canSet /\ dt = st /\ d = MaxCallDepth THEN Ret(NoErr, sv, h, <<>>)
    ELSE MapValuesByKind(h, st, sv, dt, dv, cx, d)

\* A mapValues whose fast path copies the cell of a pointer, slice or map
\* and assigns the copy.
MapValuesCloningFastPath(h, st, sv, dt, dv, canSet, cx, d) ==
    IF canSet /\ dt = st
    THEN IF Kind(dt) \in {"ptr", "slice", "map"} /\ sv # 0
         THEN LET Cloned(clone) == Ret(NoErr, clone.v, clone.h, <<>>)
              IN Cloned(New(h, h[sv]))
         ELSE Ret(NoErr, sv, h, <<>>)
    ELSE MapValuesByKind(h, st, sv, dt, dv, cx, d)

\* A mapValues whose fast path is gone: every pair is mapped by kind.
MapValuesNoFastPath(h, st, sv, dt, dv, canSet, cx, d) ==
    MapValuesByKind(h, st, sv, dt, dv, cx, d)

\* The body of mapValues: identical types are assigned whole.
MapValuesBody(h, st, sv, dt, dv, canSet, cx, d) ==
    IF canSet /\ dt = st THEN Ret(NoErr, sv, h, <<>>)
    ELSE MapValuesByKind(h, st, sv, dt, dv, cx, d)

\* mapValues(sourceVal, destVal, exact); d is what is left of the call stack.
MapValues(h, st, sv, dt, dv, canSet, cx, d) ==
    IF d = 0 THEN Ret(StackOverflow, dv, h, <<>>)
    ELSE LET Logged(r) ==
                 Ret(r.err, r.v, r.h,
                     Append(r.log, Event("mapValues", "", st, sv, dt, dv, r, cx)))
         IN Logged(MapValuesBody(h, st, sv, dt, dv, canSet, cx, d))

\* An element loop that puts each mapped element in front of the others.
MapSliceFromPrepending(h, st, items, dt, target, i, cx, d, log) ==
    IF i > Len(items) THEN Ret(NoErr, target, h, log)
    ELSE LET Then(r) ==
                 IF r.err # NoErr THEN Ret(r.err, target, r.h, log \o r.log)
                 ELSE MapSliceFrom(r.h, st, items, dt, <<r.v>> \o target, i + 1, cx, d,
                                   log \o r.log)
             Item(et) == Then(MapValues(h, Elem(st), items[i], et, Zero(et), TRUE, cx, d - 1))
         IN Item(Elem(dt))

\* The element loop of mapSlice from index i on; target holds the elements
\* mapped so far.
MapSliceFrom(h, st, items, dt, target, i, cx, d, log) ==
    IF i > Len(items) THEN Ret(NoErr, target, h, log)
    ELSE LET Then(r) ==
                 IF r.err # NoErr THEN Ret(r.err, target, r.h, log \o r.log)
                 ELSE MapSliceFrom(r.h, st, items, dt, Append(target, r.v), i + 1, cx, d,
                                   log \o r.log)
             Item(et) == Then(MapValues(h, Elem(st), items[i], et, Zero(et), TRUE, cx, d - 1))
         IN Item(Elem(dt))

\* The probes map a zero element of the source type: what a probe does
\* depends on the two types and the mode only. A probe that is reached
\* while the probe of the same two types is still running repeats it, and
\* so on without end; cx.probing holds the probes that are running.
Probing(cx, st, dt) == [cx EXCEPT !.probing = @ \cup {<<st, dt>>}]

VerifySliceTypesAreCompatible(h, st, dt, cx, d) ==
    LET Probe(dummySource) ==
            MapValues(dummySource.h, st, dummySource.v, PtrToType(dt), 0, TRUE,
                      Probing(cx, st, dt), d - 1)
    IN IF <<st, dt>> \in cx.probing THEN Ret(StackOverflow, 0, h, <<>>)
       ELSE Probe(New(h, <<Zero(Elem(st))>>))

\* A mapSlice that sets the destination to the elements mapped so far when
\* an element fails.
MapSliceInstallingPartial(h, st, sv, dt, dv, cx, d) ==
    LET Set(r, probe, target) == Ret(NoErr, target.v, target.h, r.log \o probe.log)
        Partial(r, target) == Ret(r.err, target.v, target.h, r.log)
        Probed(r, probe) ==
            IF probe.err # NoErr THEN Ret(probe.err, dv, probe.h, r.log \o probe.log)
            ELSE Set(r, probe, New(probe.h, r.v))
        Looped(items, r) ==
            IF r.err # NoErr THEN Partial(r, New(r.h, r.v))
            ELSE Probed(r, IF Len(items) = 0
                           THEN VerifySliceTypesAreCompatible(r.h, st, dt, cx, d)
                           ELSE Ret(NoErr, 0, r.h, <<>>))
        Of(items) == Looped(items, MapSliceFrom(h, st, items, dt, <<>>, 1, cx, d, <<>>))
    IN Of(IF sv = 0 THEN <<>> ELSE h[sv])

\* A mapSlice that empties the source slice once it has mapped it.
MapSliceMovingElements(h, st, sv, dt, dv, cx, d) ==
    LET Moved(hh) == IF sv = 0 THEN hh ELSE [hh EXCEPT ![sv] = <<>>]
        Set(r, probe, target) ==
            Ret(NoErr, target.v, Moved(target.h), r.log \o probe.log)
        Probed(r, probe) ==
            IF probe.err # NoErr THEN Ret(probe.err, dv, probe.h, r.log \o probe.log)
            ELSE Set(r, probe, New(probe.h, r.v))
        Looped(items, r) ==
            IF r.err # NoErr THEN Ret(r.err, dv, r.h, r.log)
            ELSE Probed(r, IF Len(items) = 0
                           THEN VerifySliceTypesAreCompatible(r.h, st, dt, cx, d)
                           ELSE Ret(NoErr, 0, r.h, <<>>))
        Of(items) == Looped(items, MapSliceFrom(h, st, items, dt, <<>>, 1, cx, d, <<>>))
    IN Of(IF sv = 0 THEN <<>> ELSE h[sv])

MapSlice(h, st, sv, dt, dv, cx, d) ==
    LET Set(r, probe, target) == Ret(NoErr, target.v, target.h, r.log \o probe.log)
        Probed(r, probe) ==
            IF probe.err # NoErr THEN Ret(probe.err, dv, probe.h, r.log \o probe.log)
            ELSE Set(r, probe, New(probe.h, r.v))
        Looped(items, r) ==
            IF r.err # NoErr THEN Ret(r.err, dv, r.h, r.log)
            ELSE Probed(r, IF Len(items) = 0
                           THEN VerifySliceTypesAreCompatible(r.h, st, dt, cx, d)
                           ELSE Ret(NoErr, 0, r.h, <<>>))
        Of(items) == Looped(items, MapSliceFrom(h, st, items, dt, <<>>, 1, cx, d, <<>>))
    IN Of(IF sv = 0 THEN <<>> ELSE h[sv])

\* A key loop that maps every value but inserts only the first key's.
MapMapFromKeepingFirstKey(h, st, cell, dt, target, ks, i, cx, d, log) ==
    IF i > Len(ks) THEN Ret(NoErr, target, h, log)
    ELSE LET Then(r) ==
                 IF r.err # NoErr THEN Ret(r.err, target, r.h, log \o r.log)
                 ELSE IF Key(st) # Key(dt) THEN Ret(Panic, target, r.h, log \o r.log)
                 ELSE MapMapFrom(r.h, st, cell, dt,
                                 IF i = 1 THEN (ks[i] :> r.v) @@ target ELSE target,
                                 ks, i + 1, cx, d, log \o r.log)
             Item(et) ==
                 Then(MapValues(h, Elem(st), cell[ks[i]], et, Zero(et), TRUE, cx, d - 1))
         IN Item(Elem(dt))

\* The key loop of mapMap over the keys ks from position i on. SetMapIndex
\* panics when the key is not assignable to the destination's key type.
MapMapFrom(h, st, cell, dt, target, ks, i, cx, d, log) ==
    IF i > Len(ks) THEN Ret(NoErr, target, h, log)
    ELSE LET Then(r) ==
                 IF r.err # NoErr THEN Ret(r.err, target, r.h, log \o r.log)
                 ELSE IF Key(st) # Key(dt) THEN Ret(Panic, target, r.h, log \o r.log)
                 ELSE MapMapFrom(r.h, st, cell, dt, (ks[i] :> r.v) @@ target, ks, i + 1,
                                 cx, d, log \o r.log)
             Item(et) ==
                 Then(MapValues(h, Elem(st), cell[ks[i]], et, Zero(et), TRUE, cx, d - 1))
         IN Item(Elem(dt))

VerifyMapElemTypesAreCompatible(h, st, dt, cx, d) ==
    LET Probe(se, de) ==
            MapValues(h, se, Zero(se), de, Zero(de), TRUE, Probing(cx, st, dt), d - 1)
    IN IF <<st, dt>> \in cx.probing THEN Ret(StackOverflow, 0, h, <<>>)
       ELSE Probe(Elem(st), Elem(dt))

\* A mapMap that does not probe the element types of an empty map.
MapMapWithoutProbe(h, st, sv, dt, dv, cx, d) ==
    LET Set(r, targetMap) == Ret(NoErr, targetMap.v, targetMap.h, r.log)
        Looped(r) ==
            IF r.err # NoErr THEN Ret(r.err, dv, r.h, r.log)
            ELSE Set(r, New(r.h, r.v))
        Of(cell) == Looped(MapMapFrom(h, st, cell, dt, <<>>, MapKeys(cell, cx), 1, cx, d, <<>>))
    IN IF Name(Key(st)) # Name(Key(dt)) THEN Ret(ErrKeyTypes, dv, h, <<>>)
       ELSE Of(IF sv = 0 THEN <<>> ELSE h[sv])

MapMap(h, st, sv, dt, dv, cx, d) ==
    LET Set(r, probe, targetMap) == Ret(NoErr, targetMap.v, targetMap.h, r.log \o probe.log)
        Probed(r, probe) ==
            IF probe.err # NoErr THEN Ret(probe.err, dv, probe.h, r.log \o probe.log)
            ELSE Set(r, probe, New(probe.h, r.v))
        Looped(ks, r) ==
            IF r.err # NoErr THEN Ret(r.err, dv, r.h, r.log)
            ELSE Probed(r, IF Len(ks) = 0
                           THEN VerifyMapElemTypesAreCompatible(r.h, st, dt, cx, d)
                           ELSE Ret(NoErr, 0, r.h, <<>>))
        Keyed(cell, ks) == Looped(ks, MapMapFrom(h, st, cell, dt, <<>>, ks, 1, cx, d, <<>>))
        Of(cell) == Keyed(cell, MapKeys(cell, cx))
    IN IF Name(Key(st)) # Name(Key(dt)) THEN Ret(ErrKeyTypes, dv, h, <<>>)
       ELSE Of(IF sv = 0 THEN <<>> ELSE h[sv])

\* ------------------------------------------------------------------- Map
ErrTooManyOptions == "maximum one mapping option is accepted as a parameter"
ErrSourceNil == "source must not be nil"
ErrDestNil == "dest must not be nil"
ErrDestNotPointer == "dest must be a pointer type"
ErrRecovered == "panic recovered as error"

\* An *Option argument: nil, or a pointer to Option{Exact}.
NilOption == [isNil |-> TRUE, Exact |-> FALSE]
OptionOf(exact) == [isNil |-> FALSE, Exact |-> exact]
GetDefaultOption == OptionOf(FALSE)

\* A verifyMapOption that takes the first option and ignores the rest.
VerifyMapOptionTakesFirst(options) ==
    IF Len(options) = 0 THEN [err |-> NoErr, option |-> GetDefaultOption]
    ELSE [err |-> NoErr, option |-> options[1]]

VerifyMapOption(options) ==
    IF Len(options) = 0 THEN [err |-> NoErr, option |-> GetDefaultOption]
    ELSE IF Len(options) > 1 THEN [err |-> ErrTooManyOptions, option |-> NilOption]
    ELSE [err |-> NoErr, option |-> options[1]]

UntypedNil == [t |-> "nil", v |-> 0]

\* Map before its deferred recover: [err, h, log]. Each check is made only
\* if the ones before it passed, mapValues is called only if all did.
MapBody(h, source, dest, options, rev) ==
    LET Stop(e) == [err |-> e, h |-> h, log |-> <<>>]
        Done(r) == [err |-> r.err, h |-> [r.h EXCEPT ![dest.v] = r.v], log |-> r.log]
        Checked(opt, srcNil, dstNil, destKind, r) ==
            IF opt.err # NoErr THEN Stop(opt.err)
            ELSE IF srcNil.panic THEN Stop(Panic)
            ELSE IF srcNil.nil THEN Stop(ErrSourceNil)
            ELSE IF dstNil.panic THEN Stop(Panic)
            ELSE IF dstNil.nil THEN Stop(ErrDestNil)
            ELSE IF destKind # "ptr" THEN Stop(ErrDestNotPointer)
            ELSE IF opt.option.isNil THEN Stop(Panic)
            ELSE Done(r)
    IN Checked(VerifyMapOption(options), IsAnyNil(source), IsAnyNil(dest), Kind(dest.t),
               MapValues(h, IF Kind(source.t) = "ptr" THEN Elem(source.t) ELSE source.t,
                         IF Kind(source.t) = "ptr" THEN h[source.v] ELSE source.v,
                         Elem(dest.t), h[dest.v], TRUE,
                         [exact |-> VerifyMapOption(options).option.Exact, rev |-> rev,
                          probing |-> {}],
                         MaxCallDepth))

\* Map: a panic beneath it is recovered and returned as an error.
Map(h, source, dest, options, rev) ==
    LET Recovered(r) == IF r.err = Panic THEN [r EXCEPT !.err = ErrRecovered] ELSE r
    IN Recovered(MapBody(h, source, dest, options, rev))

\* A MapP that panics for the errors of Map's own checks only.
MapPIgnoringMappingErrors(h, source, dest, options, rev) ==
    LET Raised(r) ==
            [panic |-> r.err # NoErr /\ r.log = <<>>, err |-> r.err, h |-> r.h, log |-> r.log]
    IN Raised(Map(h, source, dest, options, rev))

\* MapP: [panic, err, h, log]; it panics with the error Map returned.
MapP(h, source, dest, options, rev) ==
    LET Raised(r) == [panic |-> r.err # NoErr, err |-> r.err, h |-> r.h, log |-> r.log]
    IN Raised(Map(h, source, dest, options, rev))

\* ---------------------------------------------------------------- inputs
\* Deepest chain of references in a drawn input value.
TreeDepth == 3

\* Deepest chain of references in a drawn value of a self-referential type.
SelfRefDepth == 1
InputDepth(t) == IF t \in DOMAIN SelfReferentialTypes THEN SelfRefDepth ELSE TreeDepth

\* A value of type t with every scalar set and every reference present.
RECURSIVE FullTree(_, _)
FullTree(t, d) ==
    LET Of(ty) ==
            CASE ty.kind \in ScalarKinds -> 1
              [] ty.kind = "struct" ->
                    [i \in 1..Len(ty.fields) |-> FullTree(ty.fields[i].type, d)]
              [] ty.kind = "array" -> [i \in 1..ty.len |-> FullTree(ty.elem, d)]
              [] ty.kind = "ptr" -> IF d = 0 THEN <<>> ELSE <<FullTree(ty.elem, d - 1)>>
              [] ty.kind = "slice" ->
                    IF d = 0 THEN [nil |-> TRUE, items |-> <<>>]
                    ELSE [nil |-> FALSE, items |-> <<FullTree(ty.elem, d - 1)>>]
              [] ty.kind = "map" ->
                    IF d = 0 THEN [nil |-> TRUE, items |-> <<>>]
                    ELSE [nil |-> FALSE,
                          items |-> ((CHOOSE k \in KeyTrees(ty.key) : TRUE)
                                        :> FullTree(ty.elem, d - 1))]
    IN Of(TypeTable[t])

\* The (source type, destination type) pairs a call is drawn from.
TypePairs ==
    { <<"X", "X">>, <<"X", "XPointerField">>, <<"Y", "Z">>, <<"A", "E">>, <<"F", "E">>,
      <<"A", "XPointerField">>, <<"XPointerField", "X">>,
      <<"mapkind.A", "mapkind.B">>, <<"mapkind.A", "mapkind.F">>,
      <<"mapkind.F", "mapkind.G">>, <<"mapkind.A", "mapkind.A">>,
      <<"FlavorX", "FlavorY">>, <<"FlavorX", "FlavorWithNonPointerRoleSlice">>,
      <<"FlavorWithNonPointerRoleSlice", "FlavorY">>,
      <<"FlavorWithNonPointerRoleSlice", "FlavorX">>,
      <<"FlavorWithNonPointerRoleSlice", "FlavorW">>, <<"ext.S", "ext.T">>,
      <<"ext.U", "ext.V">>, <<"ext.S", "ext.R">>, <<"ext.X", "ext.Y">>,
      <<"Holder", "Flat">>,
      <<"ext.P", "ext.Q">>, <<"Emb", "Flat">>, <<"Emb2", "Flat">>, <<"Flat", "EmbD">>, <<"FlatB", "EmbD">>,
      <<"Flat", "Emb">>,
      <<"ext.K", "FlavorWithNonPointerRoleSlice">>, <<"ext.M", "mapkind.B">>,
      <<"Node", "NodeY">>, <<"Tree", "TreeY">>, <<"Dir", "DirY">>,
      <<"string", "string">>, <<"string", "int">>, <<"[2]int", "[2]int">>,
      <<"[]string", "[]string">> }

\* How the source is passed: the untyped nil, a nil *T, a T, or a *T.
SourceForms == {"untyped", "nilptr", "value", "pointer"}
\* How the destination is passed: the untyped nil, a nil *T, a T (not a
\* pointer), a pointer to a zero T, a pointer to a T already holding values,
\* a *T that the source holds (nil when it holds none).
DestForms == {"untyped", "nilptr", "value", "fresh", "used", "inside"}

OptionLists ==
    { <<>>, <<OptionOf(FALSE)>>, <<OptionOf(TRUE)>>, <<NilOption>>,
      <<OptionOf(TRUE), OptionOf(FALSE)>> }

\* A pointer of type t to the cell just made.
Ref(t, q) == [h |-> q.h, x |-> [t |-> t, v |-> q.v]]

\* The source argument laid out in heap h: [h, x] with x the boxed value.
BoxSource(h, st, form, tree) ==
    LET Of(a) ==
            IF form = "value" THEN [h |-> a.h, x |-> [t |-> st, v |-> a.v]]
            ELSE Ref(PtrToType(st), New(a.h, a.v))
    IN CASE form = "untyped" -> [h |-> h, x |-> UntypedNil]
         [] form = "nilptr" -> [h |-> h, x |-> [t |-> PtrToType(st), v |-> 0]]
         [] form \in {"value", "pointer"} -> Of(Alloc(h, st, tree))

BoxDest(h, dt, form) ==
    LET Used(a) == Ref(PtrToType(dt), New(a.h, a.v))
    IN CASE form = "untyped" -> [h |-> h, x |-> UntypedNil]
         [] form = "nilptr" -> [h |-> h, x |-> [t |-> PtrToType(dt), v |-> 0]]
         [] form = "value" -> [h |-> h, x |-> [t |-> dt, v |-> Zero(dt)]]
         [] form = "fresh" -> Ref(PtrToType(dt), New(h, Zero(dt)))
         [] form = "used" -> Used(Alloc(h, dt, FullTree(dt, InputDepth(dt))))

\* ---------------------------------------------------------- state machine
VARIABLES
    api,      \* the function called: "Map" or "MapP"
    pc,       \* "idle", "returned" (the call returned), "panicked" (MapP
              \* panicked), "crashed" (stack overflow) or "mutated"
    source,   \* the boxed source argument of the call
    dest,     \* the boxed dest argument of the call
    options,  \* the options arguments of the call
    rev,      \* the order in which MapKeys listed map keys during the call
    heap0,    \* the heap when Map was called
    heap,     \* the heap now
    err,      \* the error Map returned
    log,      \* the mapValues and mapField calls Map made
    mut       \* the caller's write after the call: through which argument,
              \* to which cell, and the heap before it

vars == <<api, pc, source, dest, options, rev, heap0, heap, err, log, mut>>

NoWrite == [via |-> "", addr |-> 0, before |-> <<>>]

Init ==
    /\ api = ""
    /\ pc = "idle"
    /\ source = UntypedNil
    /\ dest = UntypedNil
    /\ options = <<>>
    /\ rev = FALSE
    /\ heap0 = <<>>
    /\ heap = <<>>
    /\ err = NoErr
    /\ log = <<>>
    /\ mut = NoWrite

HasMap(t) == \E i \in 1..NumField(t) : Kind(Field(t, i).type) = "map"

\* The cells a value of type t refers to, directly or through other cells.
RECURSIVE Reach(_, _, _)
Reach(h, t, v) ==
    LET Of(ty) ==
            CASE ty.kind \in ScalarKinds -> {}
              [] ty.kind = "struct" ->
                    UNION {Reach(h, ty.fields[i].type, v[i]) : i \in 1..Len(ty.fields)}
              [] ty.kind = "array" -> UNION {Reach(h, ty.elem, v[i]) : i \in 1..ty.len}
              [] ty.kind = "ptr" -> IF v = 0 THEN {} ELSE {v} \cup Reach(h, ty.elem, h[v])
              [] ty.kind \in {"slice", "map"} ->
                    IF v = 0 THEN {}
                    ELSE {v} \cup UNION {Reach(h, ty.elem, h[v][k]) : k \in DOMAIN h[v]}
    IN Of(TypeTable[t])

\* The type of the reference whose cell is a, found from a value of type t.
RECURSIVE RefTypes(_, _, _, _)
RefTypes(h, t, v, a) ==
    LET Here == IF v = a THEN {t} ELSE {}
        Of(ty) ==
            CASE ty.kind \in ScalarKinds -> {}
              [] ty.kind = "struct" ->
                    UNION {RefTypes(h, ty.fields[i].type, v[i], a) : i \in 1..Len(ty.fields)}
              [] ty.kind = "array" ->
                    UNION {RefTypes(h, ty.elem, v[i], a) : i \in 1..ty.len}
              [] ty.kind = "ptr" ->
                    IF v = 0 THEN {} ELSE Here \cup RefTypes(h, ty.elem, h[v], a)
              [] ty.kind \in {"slice", "map"} ->
                    IF v = 0 THEN {}
                    ELSE Here \cup UNION {RefTypes(h, ty.elem, h[v][k], a) : k \in DOMAIN h[v]}
    IN Of(TypeTable[t])

\* The cells a *dt held inside the boxed source s.x points to (the source's
\* own pointer is not one of them).
Inside(s, dt) ==
    IF s.x.t = "nil" THEN {}
    ELSE {a \in Reach(s.h, s.x.t, s.x.v) :
             /\ Kind(s.x.t) = "ptr" => a # s.x.v
             /\ PtrToType(dt) \in RefTypes(s.h, s.x.t, s.x.v, a)}

\* The destination argument that is a pointer the source holds.
BoxInside(s, dt, cells) ==
    [h |-> s.h,
     x |-> [t |-> PtrToType(dt),
            v |-> IF cells = {} THEN 0 ELSE CHOOSE a \in cells : TRUE]]

\* The arguments of a call laid out in a new heap: [h, source, dest].
BoxDestAfter(s, dt, df) ==
    LET Both(t) == [h |-> t.h, source |-> s.x, dest |-> t.x]
    IN Both(IF df = "inside" THEN BoxInside(s, dt, Inside(s, dt))
            ELSE BoxDest(s.h, dt, df))
BoxArgs(p, sf, df, tree) == BoxDestAfter(BoxSource(<<>>, p[1], sf, tree), p[2], df)

\* A call Map(source, dest, options...) on drawn arguments.
CallMap ==
    /\ pc = "idle"
    /\ \E p \in TypePairs, sf \in SourceForms, df \in DestForms, ol \in OptionLists,
          o \in BOOLEAN :
         \E tree \in IF sf \in {"value", "pointer"} THEN Trees(p[1], InputDepth(p[1]))
                     ELSE {Zero(p[1])} :
            \E a \in {BoxArgs(p, sf, df, tree)} :
               \E r \in {Map(a.h, a.source, a.dest, ol, o)} :
                  /\ o => HasMap(p[1])
                  /\ source' = a.source
                  /\ dest' = a.dest
                  /\ options' = ol
                  /\ rev' = o
                  /\ heap0' = a.h
                  /\ heap' = r.h
                  /\ err' = r.err
                  /\ log' = r.log
                  /\ mut' = NoWrite
                  /\ api' = "Map"
                  /\ pc' = IF r.err = StackOverflow THEN "crashed" ELSE "returned"

\* A call MapP(source, dest, options...) on drawn arguments.
CallMapP ==
    /\ pc = "idle"
    /\ \E p \in TypePairs, sf \in SourceForms, df \in DestForms, ol \in OptionLists,
          o \in BOOLEAN :
         \E tree \in IF sf \in {"value", "pointer"} THEN Trees(p[1], InputDepth(p[1]))
                     ELSE {Zero(p[1])} :
            \E a \in {BoxArgs(p, sf, df, tree)} :
               \E r \in {MapP(a.h, a.source, a.dest, ol, o)} :
                  /\ o => HasMap(p[1])
                  /\ source' = a.source
                  /\ dest' = a.dest
                  /\ options' = ol
                  /\ rev' = o
                  /\ heap0' = a.h
                  /\ heap' = r.h
                  /\ err' = r.err
                  /\ log' = r.log
                  /\ mut' = NoWrite
                  /\ api' = "MapP"
                  /\ pc' = IF r.err = StackOverflow THEN "crashed"
                           ELSE IF r.panic THEN "panicked" ELSE "returned"

\* A value of type t as a caller sees it, every reference followed.
RECURSIVE View(_, _, _)
View(h, t, v) ==
    LET Of(ty) ==
            CASE ty.kind \in ScalarKinds -> v
              [] ty.kind = "struct" ->
                    [i \in 1..Len(ty.fields) |-> View(h, ty.fields[i].type, v[i])]
              [] ty.kind = "array" -> [i \in 1..ty.len |-> View(h, ty.elem, v[i])]
              [] ty.kind = "ptr" -> IF v = 0 THEN <<>> ELSE <<View(h, ty.elem, h[v])>>
              [] ty.kind \in {"slice", "map"} ->
                    IF v = 0 THEN [nil |-> TRUE, items |-> <<>>]
                    ELSE [nil |-> FALSE,
                          items |-> [k \in DOMAIN h[v] |-> View(h, ty.elem, h[v][k])]]
    IN Of(TypeTable[t])

\* A value of type t with its first scalar changed, or its first reference
\* set to nil.
RECURSIVE Changed(_, _)
Changed(t, v) ==
    LET Of(ty) ==
            CASE ty.kind \in ScalarKinds -> 1 - v
              [] ty.kind = "struct" -> [v EXCEPT ![1] = Changed(ty.fields[1].type, v[1])]
              [] ty.kind = "array" -> [v EXCEPT ![1] = Changed(ty.elem, v[1])]
              [] OTHER -> 0
    IN Of(TypeTable[t])

\* The cell of a reference of type t after a write through the reference:
\* to the pointee, to an element of the slice, to an entry of the map.
Written(t, cell) ==
    LET At(ty, k) == [cell EXCEPT ![k] = Changed(ty.elem, cell[k])]
        Of(ty) ==
            IF ty.kind = "ptr" THEN Changed(ty.elem, cell)
            ELSE IF DOMAIN cell = {} THEN cell
            ELSE At(ty, CHOOSE x \in DOMAIN cell : TRUE)
    IN Of(TypeTable[t])

\* After a successful Map the caller writes through a reference it reaches
\* from the source it passed, or from the destination.
Mutate ==
    /\ pc = "returned" /\ err = NoErr
    /\ \E via \in {"source", "dest"} :
          LET Write(a, cell) ==
                  /\ cell # heap[a]
                  /\ heap' = [heap EXCEPT ![a] = cell]
                  /\ mut' = [via |-> via, addr |-> a, before |-> heap]
              Through(x) ==
                  \E a \in Reach(heap, x.t, x.v) :
                     \E t \in RefTypes(heap, x.t, x.v, a) : Write(a, Written(t, heap[a]))
          IN Through(IF via = "source" THEN source ELSE dest)
    /\ pc' = "mutated"
    /\ UNCHANGED <<api, source, dest, options, rev, heap0, err, log>>

\* The caller goes on to its next call.
Reset ==
    /\ pc # "idle"
    /\ api' = ""
    /\ pc' = "idle"
    /\ source' = UntypedNil
    /\ dest' = UntypedNil
    /\ options' = <<>>
    /\ rev' = FALSE
    /\ heap0' = <<>>
    /\ heap' = <<>>
    /\ err' = NoErr
    /\ log' = <<>>
    /\ mut' = NoWrite

Next == CallMap \/ CallMapP \/ Mutate \/ Reset

Spec == Init /\ [][Next]_vars

\* ---------------------------------------------------------------- claims
Returned == pc = "returned"
IsNilArg(x) == x.t = "nil" \/ (Kind(x.t) = "ptr" /\ x.v = 0)
\* The call's arguments pass every check Map makes before mapValues.
ValidCall ==
    /\ source.t # "nil" /\ dest.t # "nil"
    /\ Kind(source.t) # "array"
    /\ Kind(source.t) \in {"ptr", "slice", "map"} => source.v # 0
    /\ Kind(dest.t) = "ptr" /\ dest.v # 0
    /\ Len(options) <= 1
    /\ Len(options) = 1 => ~options[1].isNil
\* The root source and destination of the call, as mapValues gets them.
SourceType == IF Kind(source.t) = "ptr" THEN Elem(source.t) ELSE source.t
SourceVal == IF Kind(source.t) = "ptr" THEN heap0[source.v] ELSE source.v
DestType == Elem(dest.t)
Exact == Len(options) = 1 /\ options[1].Exact

\* C1: a call with a nil source (untyped nil or nil pointer), a nil dest, a
\* dest that is not a pointer, or more than one option returns a non-nil
\* error and leaves the destination (the whole heap) as it was.
C1_PreconditionsRejected ==
    (/\ Returned
     /\ \/ IsNilArg(source)
        \/ IsNilArg(dest)
        \/ Kind(dest.t) # "ptr"
        \/ Len(options) > 1)
    => err # NoErr /\ heap = heap0

C1_Witness ==
    /\ Returned
    /\ Len(options) > 1
    /\ ~IsNilArg(source) /\ ~IsNilArg(dest) /\ Kind(dest.t) = "ptr"
    /\ SourceType = "X" /\ DestType = "XPointerField"
    /\ SourceVal[1] = 1 /\ heap0[dest.v][1] = 0
    /\ err = ErrTooManyOptions
    /\ heap = heap0

DestField(e) ==
    LET i == CHOOSE j \in 1..NumField(e.dt) : Field(e.dt, j).name = e.name
    IN Field(e.dt, i)
IsFieldCall(e) == e.fn = "mapField"
IsValuesCall(e) == e.fn = "mapValues"
\* The kind of the source once a pointer is dereferenced.
NormKind(t) == IF Kind(t) = "ptr" THEN Kind(Elem(t)) ELSE Kind(t)
\* The call reached mapValues on a struct pair of different types.
FieldByField ==
    /\ Returned /\ ValidCall
    /\ Kind(DestType) = "struct" /\ Kind(SourceType) = "struct"
    /\ DestType # SourceType

\* C3: a settable, named destination field with no field of that name on
\* the source struct: in loose mode mapField returns no error and the field
\* keeps its value; in strict mode mapField fails with the missing-field
\* error and that is the error Map returns.
C3_MissingFieldPolicy ==
    /\ Returned =>
         \A k \in DOMAIN log :
            LET e == log[k] IN
            (/\ IsFieldCall(e) /\ DestField(e).exported /\ ~DestField(e).anon
             /\ TypeFieldByName(e.st, e.name) = <<>>)
            => /\ e.av = e.bv
               /\ IF e.exact THEN e.err = ErrNoField /\ err = ErrNoField
                  ELSE e.err = NoErr
    /\ (FieldByField /\ ~Exact) =>
         \A i \in 1..NumField(DestType) :
            (/\ Field(DestType, i).exported /\ ~Field(DestType, i).anon
             /\ TypeFieldByName(SourceType, Field(DestType, i).name) = <<>>)
            => heap[dest.v][i] = heap0[dest.v][i]

C3_Witness ==
    /\ FieldByField /\ ~Exact
    /\ SourceType = "A" /\ DestType = "XPointerField"
    /\ heap0[dest.v][1] = 1 /\ heap[dest.v][1] = 1
    /\ err = NoErr
    /\ \E k \in DOMAIN log : IsFieldCall(log[k]) /\ log[k].name = "Ui64"

\* C4: a destination field that can not be set (unexported, reached field
\* by field) is never written: in loose mode mapField returns no error and
\* the field keeps its value even if the source has a non-zero field of the
\* same name and type; in strict mode mapField fails with the can-not-set
\* error and that is the error Map returns.
C4_UnsettableFieldPolicy ==
    /\ Returned =>
         \A k \in DOMAIN log :
            LET e == log[k] IN
            (IsFieldCall(e) /\ ~DestField(e).exported)
            => /\ e.av = e.bv
               /\ IF e.exact THEN e.err = ErrCanNotSet /\ err = ErrCanNotSet
                  ELSE e.err = NoErr
    /\ FieldByField =>
         \A i \in 1..NumField(DestType) :
            ~Field(DestType, i).exported => heap[dest.v][i] = heap0[dest.v][i]

C4_Witness ==
    /\ FieldByField /\ ~Exact
    /\ SourceType = "X" /\ DestType = "XPointerField"
    /\ SourceVal[2] = 1
    /\ heap0[dest.v][2] = 0 /\ heap[dest.v][2] = 0
    /\ heap[dest.v][1] = 1
    /\ err = NoErr

\* C5: a mapValues call on a pair of different types whose destination is a
\* struct, slice or map while the dereferenced source is of another kind (a
\* nil source pointer counts for a struct destination only: before a slice
\* or a map it is a no-op), or whose destination is of any other kind but
\* pointer, fails, and Map returns a non-nil error, in loose mode as well as
\* in strict mode and at any depth.
ShapeMismatch(e) ==
    /\ IsValuesCall(e)
    /\ e.dt # e.st
    /\ \/ Kind(e.dt) = "struct" /\ NormKind(e.st) # "struct"
       \/ /\ Kind(e.dt) \in {"slice", "map"}
          /\ ~IsReflectValNil(e.st, e.sv)
          /\ NormKind(e.st) # Kind(e.dt)
       \/ Kind(e.dt) \notin {"ptr", "struct", "slice", "map"}

C5_ShapeMismatchNotDowngraded ==
    Returned => \A k \in DOMAIN log :
                   ShapeMismatch(log[k]) => log[k].err # NoErr /\ err # NoErr

C5_Witness ==
    /\ FieldByField /\ ~Exact
    /\ SourceType = "A" /\ DestType = "E"
    /\ \E k \in DOMAIN log :
          /\ ShapeMismatch(log[k])
          /\ log[k].st = "string" /\ log[k].dt = "Z"
    /\ err = ErrKind("struct")

\* C6: at every depth, a mapValues call whose destination type is identical
\* to the source type assigns the whole source value, so the unexported
\* fields inside it are transferred although the root types differ.
C6_FastPathAtEveryDepth ==
    Returned => \A k \in DOMAIN log :
                   (IsValuesCall(log[k]) /\ log[k].dt = log[k].st)
                   => log[k].err = NoErr /\ log[k].av = log[k].sv

\* Y{In: B{C: C{address}}} into Z{In: *D{C: *C}}: the address arrives.
C6_Witness ==
    /\ FieldByField
    /\ SourceType = "Y" /\ DestType = "Z"
    /\ SourceVal[1][1][1] = 1
    /\ err = NoErr
    /\ heap[dest.v][1] # 0
    /\ heap[heap[heap[dest.v][1]][1]][1] = 1
    /\ \E k \in DOMAIN log :
          IsValuesCall(log[k]) /\ log[k].st = "C" /\ log[k].dt = "C" /\ log[k].av = <<1>>

\* The cells of the source that the values assigned through the fast path
\* refer to (the probe of an empty slice assigns values of its own making).
FastPathCells(h) ==
    Reach(h, source.t, source.v)
    \cap UNION {IF IsValuesCall(log[k]) /\ log[k].dt = log[k].st
                THEN Reach(h, log[k].st, log[k].sv) ELSE {} : k \in DOMAIN log}

\* C7: after a successful Map, a pointer, slice or map assigned through the
\* fast path is the source's own reference (the same cell, not a copy), the
\* cells of the source such a value refers to are reached from the
\* destination, and a later write to such a cell through the source
\* shows in the destination, as a write through the destination shows in
\* the source.
C7_FastPathAliases ==
    /\ (Returned /\ err = NoErr) =>
          /\ \A k \in DOMAIN log :
                (/\ IsValuesCall(log[k]) /\ log[k].dt = log[k].st
                 /\ Kind(log[k].dt) \in {"ptr", "slice", "map"})
                => log[k].av = log[k].sv
          /\ FastPathCells(heap) \subseteq Reach(heap, dest.t, dest.v)
    /\ (pc = "mutated" /\ mut.addr \in FastPathCells(mut.before)) =>
          /\ mut.via = "source" =>
                View(heap, dest.t, dest.v) # View(mut.before, dest.t, dest.v)
          /\ mut.via = "dest" =>
                View(heap, source.t, source.v) # View(mut.before, source.t, source.v)

\* X{A: A{zone: []string{s}}} into XPointerField: the element of zone is
\* written through the source and read through the destination.
C7_Witness ==
    /\ pc = "mutated" /\ mut.via = "source"
    /\ SourceType = "X" /\ DestType = "XPointerField"
    /\ mut.addr \in FastPathCells(mut.before)
    /\ mut.addr = SourceVal[3][2]
    /\ mut.before[mut.addr] = <<1>> /\ heap[mut.addr] = <<0>>
    /\ View(mut.before, dest.t, dest.v)[1][3][1][2].items = <<1>>
    /\ View(heap, dest.t, dest.v)[1][3][1][2].items = <<0>>

\* C8: a mapValues call whose source is a nil pointer, whose destination
\* type is another type and of kind pointer, slice or map, returns no error
\* and leaves the slot as it was, in both modes, whatever the pointee types.
NilIntoReference(e) ==
    /\ IsValuesCall(e)
    /\ IsReflectValNil(e.st, e.sv)
    /\ e.dt # e.st
    /\ Kind(e.dt) \in {"ptr", "slice", "map"}

C8_AbsentPropagation ==
    Returned => \A k \in DOMAIN log :
                   NilIntoReference(log[k]) => log[k].err = NoErr /\ log[k].av = log[k].bv

\* FlavorX{Roles: nil} into a FlavorY whose Roles is already set.
C8_Witness ==
    /\ FieldByField
    /\ SourceType = "FlavorX" /\ DestType = "FlavorY"
    /\ SourceVal[2] = 0
    /\ heap0[dest.v][2] # 0 /\ heap[dest.v][2] = heap0[dest.v][2]
    /\ err = NoErr
    /\ \E k \in DOMAIN log : NilIntoReference(log[k]) /\ log[k].dt = "*[]RoleY"

\* The type of the source once a pointer is dereferenced.
NormType(t) == IF Kind(t) = "ptr" THEN Elem(t) ELSE t
\* A mapValues call that hands a map to mapMap.
IsMapCall(e) ==
    /\ IsValuesCall(e)
    /\ e.dt # e.st
    /\ Kind(e.dt) = "map"
    /\ ~IsReflectValNil(e.st, e.sv)
    /\ NormKind(e.st) = "map"
\* The source map of such a call.
SourceMap(e) ==
    LET a == IF Kind(e.st) = "ptr" THEN heap0[e.sv] ELSE e.sv
    IN IF a = 0 THEN <<>> ELSE heap0[a]

\* C9: a map source and a map destination whose key types are not identical:
\* the mapping fails with the key-type error, whatever the map holds and in
\* both modes, and the destination map is not assigned.
C9_KeyTypeEnforcement ==
    Returned => \A k \in DOMAIN log :
                   (IsMapCall(log[k]) /\ Key(NormType(log[k].st)) # Key(log[k].dt))
                   => /\ log[k].err = ErrKeyTypes
                      /\ log[k].av = log[k].bv
                      /\ err = ErrKeyTypes

\* Whether the values of type st map into type dt: for every value, for none.
ValueMaps(st, tree, dt, exact) ==
    LET a == Alloc(<<>>, st, tree)
    IN MapValues(a.h, st, a.v, dt, Zero(dt), TRUE, [exact |-> exact, rev |-> FALSE, probing |-> {}],
                 MaxCallDepth).err = NoErr
AlwaysMaps(st, dt, exact) == \A tree \in Trees(st, TreeDepth) : ValueMaps(st, tree, dt, exact)
NeverMaps(st, dt, exact) == \A tree \in Trees(st, TreeDepth) : ~ValueMaps(st, tree, dt, exact)

\* C10: mapping an empty source map (keys of the same type) whose value type
\* maps for no value into the destination's value type fails, though there
\* is no element to copy; when the value type maps for every value, the
\* mapping succeeds and assigns an empty map that is not nil.
EmptyMapCall(e) ==
    /\ IsMapCall(e)
    /\ Key(NormType(e.st)) = Key(e.dt)
    /\ DOMAIN SourceMap(e) = {}

IsNewCell(a) == a > Len(heap0) /\ a <= Len(heap)
\* A mapValues call that returned before call k and mapped the source value
\* sv of type st into a fresh (zero) slot of type dt, leaving v in it.
MappedBefore(k, st, sv, dt, v) ==
    \E j \in 1..(k - 1) :
       /\ IsValuesCall(log[j])
       /\ log[j].st = st /\ log[j].dt = dt
       /\ log[j].sv = sv
       /\ log[j].bv = Zero(dt)
       /\ log[j].err = NoErr
       /\ log[j].av = v

\* C11: a mapValues call that maps a map into a map of another type and
\* succeeds leaves in the slot a map cell made during the call, whose keys
\* are exactly the source map's keys and whose value under each key is what
\* mapValues left in a fresh slot when given the source's value under it.
C11_MapToMapResult ==
    Returned =>
       \A k \in DOMAIN log :
          LET e == log[k] IN
          (IsMapCall(e) /\ e.err = NoErr) =>
             /\ e.av # 0 /\ IsNewCell(e.av)
             /\ DOMAIN heap[e.av] = DOMAIN SourceMap(e)
             /\ \A key \in DOMAIN SourceMap(e) :
                   MappedBefore(k, Elem(NormType(e.st)), SourceMap(e)[key],
                                Elem(e.dt), heap[e.av][key])

\* mapkind.A{MapX: {0: C{1}, 1: C{0}}} into mapkind.B: both keys arrive, each
\* with its own value.
C11_Witness ==
    /\ FieldByField
    /\ SourceType = "mapkind.A" /\ DestType = "mapkind.B"
    /\ SourceVal[1] # 0
    /\ heap0[SourceVal[1]] = (0 :> <<1>>) @@ (1 :> <<0>>)
    /\ err = NoErr
    /\ heap[dest.v][1] # SourceVal[1] /\ IsNewCell(heap[dest.v][1])
    /\ heap[heap[dest.v][1]] = (0 :> <<1>>) @@ (1 :> <<0>>)
    /\ \E k \in DOMAIN log : IsMapCall(log[k]) /\ log[k].err = NoErr

\* A mapValues call whose source is a slice or a pointer to one and that
\* hands it to mapSlice: the destination is a slice of another type than the
\* source, or a pointer to such a slice (the pointer branch then calls
\* mapValues on its new pointee, which calls mapSlice).
IsSliceCall(e) ==
    /\ IsValuesCall(e)
    /\ e.dt # e.st
    /\ \/ Kind(e.dt) = "slice"
       \/ Kind(e.dt) = "ptr" /\ Kind(Elem(e.dt)) = "slice" /\ Elem(e.dt) # e.st
    /\ NormKind(e.st) = "slice"
\* The source slice of such a call (0 when it is absent) and the slice its
\* destination holds afterwards.
SourceSlice(e) ==
    IF Kind(e.st) # "ptr" THEN e.sv ELSE IF e.sv = 0 THEN 0 ELSE heap[e.sv]
DestSlice(e) ==
    IF Kind(e.dt) # "ptr" THEN e.av ELSE IF e.av = 0 THEN 0 ELSE heap[e.av]
DestSliceType(e) == IF Kind(e.dt) = "ptr" THEN Elem(e.dt) ELSE e.dt

FaultRaised == MapBody(heap0, source, dest, options, rev).err = Panic

\* C13: every call of Map returns, whatever the arguments, and a fault
\* raised beneath it comes back as a non-nil error of Map, never as a panic
\* or a crash at the caller.
C13_NoRawFaultEscapes ==
    (api = "Map" /\ pc \in {"returned", "crashed"}) =>
       /\ pc = "returned"
       /\ err # Panic
       /\ FaultRaised => err = ErrRecovered

\* What Map does on the arguments of the call.
MapOnSameArguments == Map(heap0, source, dest, options, rev)

\* C14: a call of MapP panics exactly if Map returns an error on the same
\* arguments, the panic value is that error, and, panic or not, it leaves
\* the destination (the heap) as Map leaves it.
C14_MapPPanicsIffMapFails ==
    (api = "MapP" /\ pc \in {"returned", "panicked"}) =>
       /\ pc = "panicked" <=> MapOnSameArguments.err # NoErr
       /\ err = MapOnSameArguments.err
       /\ heap = MapOnSameArguments.h

\* MapP(X{...}, (*X)(nil)) panics with Map's error for a nil dest.
C14_Witness ==
    /\ api = "MapP" /\ pc = "panicked"
    /\ source.t = "X" /\ dest.t = "*X" /\ dest.v = 0
    /\ options = <<>>
    /\ MapOnSameArguments.err = ErrDestNil
    /\ err = ErrDestNil
    /\ heap = heap0

\* C15: every call of Map on a finite source value returns, with or without
\* an error, also when the types contain a pointer to, a slice of or a map
\* of themselves.
C15_RecursionTerminates ==
    (pc # "idle" /\ ValidCall
     /\ SourceType \in DOMAIN SelfReferentialTypes
     /\ DestType \in DOMAIN SelfReferentialTypes)
    => pc # "crashed"

\* A mapValues call that hands a slice to mapSlice or a map to mapMap, and
\* the cell of that source container (0 when it is nil).
IsContainerCall(e) ==
    /\ IsValuesCall(e)
    /\ e.dt # e.st
    /\ Kind(e.dt) \in {"slice", "map"}
    /\ ~IsReflectValNil(e.st, e.sv)
    /\ NormKind(e.st) = Kind(e.dt)
SourceContainer(e) == IF Kind(e.st) = "ptr" THEN heap[e.sv] ELSE e.sv
IsEmptyContainer(a) == a = 0 \/ DOMAIN heap[a] = {}
\* What mapValues returns for an empty, non-nil container of type st and a
\* nil destination of type dt.
EmptyContainerErr(st, dt, exact) ==
    LET Mapped(empty) ==
            MapValues(empty.h, st, empty.v, dt, 0, TRUE,
                      [exact |-> exact, rev |-> FALSE, probing |-> {}], MaxCallDepth).err
    IN Mapped(New(<<>>, <<>>))

\* C16: a slice or a map that is not empty is mapped into a container of
\* another type with an error exactly if the empty container of its type
\* is, in the same mode.
C16_EmptinessNeverHidesMismatch ==
    Returned =>
       \A k \in DOMAIN log :
          LET e == log[k] IN
          (IsContainerCall(e) /\ ~IsEmptyContainer(SourceContainer(e))) =>
             (e.err # NoErr <=> EmptyContainerErr(NormType(e.st), e.dt, e.exact) # NoErr)

\* Walking the index path of a promoted field from the struct value v of
\* type t, an embedded pointer on the way to the field is nil.
RECURSIVE NilEmbeddedOnPath(_, _, _)
NilEmbeddedOnPath(t, v, path) ==
    IF Len(path) <= 1 THEN FALSE
    ELSE LET ft == Field(t, path[1]).type
             fv == v[path[1]]
         IN IF Kind(ft) = "ptr"
            THEN fv = 0 \/ NilEmbeddedOnPath(Elem(ft), heap[fv], Tail(path))
            ELSE NilEmbeddedOnPath(ft, fv, Tail(path))
\* A mapField call for a named, settable field that the source has only as
\* a promoted field, behind an embedded pointer that is nil.
BehindNilEmbedded(e) ==
    /\ IsFieldCall(e)
    /\ DestField(e).exported /\ ~DestField(e).anon
    /\ NilEmbeddedOnPath(e.st, e.sv, TypeFieldByName(e.st, e.name))

\* C17: mapField on such a field returns no error and leaves the field as
\* it was, in both modes and whichever embedded pointer of the chain is nil;
\* Map returns no fault because of it.
C17_EmbeddedNilShortCircuit ==
    Returned => \A k \in DOMAIN log :
                   BehindNilEmbedded(log[k])
                   => /\ log[k].err = NoErr
                      /\ log[k].av = log[k].bv
                      /\ err # ErrRecovered

\* A mapValues call with a struct destination and a nil pointer of another
\* type as its source.
NilIntoStruct(e) ==
    /\ IsValuesCall(e)
    /\ Kind(e.dt) = "struct"
    /\ e.dt # e.st
    /\ IsReflectValNil(e.st, e.sv)
\* The same call with the pointer set, pointing at a zero value.
WithZeroPointee(e) ==
    LET Mapped(p) ==
            MapValues(p.h, e.st, p.v, e.dt, e.bv, TRUE,
                      [exact |-> e.exact, rev |-> rev, probing |-> {}], MaxCallDepth)
    IN Mapped(New(heap, Zero(Elem(e.st))))
\* The fields of the destination struct of e that are mapped from a field of
\* the struct type st.
MatchedFields(e, st) ==
    {i \in 1..NumField(e.dt) :
        /\ Field(e.dt, i).exported /\ ~Field(e.dt, i).anon
        /\ Len(TypeFieldByName(st, Field(e.dt, i).name)) = 1}
SourceFieldType(st, name) == Field(st, TypeFieldByName(st, name)[1]).type

C19_SliceAllOrNothing ==
    Returned =>
       \A k \in DOMAIN log :
          LET e == log[k] IN
          (IsSliceCall(e) /\ e.err # NoErr) =>
             /\ e.av = e.bv
             /\ \E j \in 1..(k - 1) :
                   /\ IsValuesCall(log[j])
                   /\ log[j].err = e.err
                   /\ log[j].dt \in {Elem(DestSliceType(e)), PtrToType(DestSliceType(e)),
                                    DestSliceType(e)}
             /\ err = IF e.err = Panic THEN ErrRecovered ELSE e.err

\* FlavorWithNonPointerRoleSlice{Roles: {{Size: nil}, {Size: &n}}} into a
\* FlavorW whose Roles is set: the first element maps, the second does not
\* (*int into *string), and Roles is still the slice it was.
C19_Witness ==
    /\ FieldByField /\ ~Exact
    /\ SourceType = "FlavorWithNonPointerRoleSlice" /\ DestType = "FlavorW"
    /\ SourceVal[2] # 0 /\ Len(heap0[SourceVal[2]]) = 2
    /\ heap0[SourceVal[2]][1] = <<0>> /\ heap0[SourceVal[2]][2] # <<0>>
    /\ heap0[dest.v][2] # 0
    /\ err = ErrIncompatible
    /\ heap[dest.v][2] = heap0[dest.v][2]
    /\ heap[heap[dest.v][2]] = heap0[heap0[dest.v][2]]
    /\ \E k \in DOMAIN log :
          /\ IsSliceCall(log[k]) /\ log[k].err = ErrIncompatible
          /\ MappedBefore(k, "RoleX", <<0>>, "RoleW", <<0>>)

\* A mapField call on a settable embedded destination field.
IsEmbeddedFieldCall(e) == IsFieldCall(e) /\ DestField(e).anon /\ CanSet(DestField(e))
\* Field i of the embedded struct type t has a field of its name on the
\* source struct type st that mapField reaches (named, settable, found).
Flattened(st, sv, t, i) ==
    /\ ~Field(t, i).anon /\ CanSet(Field(t, i))
    /\ TypeFieldByName(st, Field(t, i).name) # <<>>
    /\ ~NilEmbeddedOnPath(st, sv, TypeFieldByName(st, Field(t, i).name))

\* C20: mapField on a settable embedded destination field, in either mode,
\* is the mapValues call made just before it returns, on the whole source
\* struct and the embedded destination value: same source type and value,
\* the field's type and old value, and the same result and error. When the
\* embedded type is a struct of another type than the source and the call
\* succeeds, each of its fields with a namesake on the source struct got its
\* value from a mapField call on that same source struct.
C20_EmbeddedFieldsFlattened ==
    Returned =>
       \A k \in DOMAIN log :
          LET e == log[k] IN
          IsEmbeddedFieldCall(e) =>
             /\ k > 1
             /\ IsValuesCall(log[k - 1])
             /\ log[k - 1].st = e.st /\ log[k - 1].sv = e.sv
             /\ log[k - 1].dt = DestField(e).type
             /\ log[k - 1].bv = e.bv /\ log[k - 1].av = e.av
             /\ log[k - 1].err = e.err /\ log[k - 1].exact = e.exact
             /\ (/\ Kind(DestField(e).type) = "struct"
                 /\ DestField(e).type # e.st /\ e.err = NoErr)
                => \A i \in 1..NumField(DestField(e).type) :
                      Flattened(e.st, e.sv, DestField(e).type, i) =>
                         \E j \in 1..(k - 1) :
                            /\ IsFieldCall(log[j])
                            /\ log[j].name = Field(DestField(e).type, i).name
                            /\ log[j].st = e.st /\ log[j].sv = e.sv
                            /\ log[j].dt = DestField(e).type
                            /\ log[j].err = NoErr
                            /\ log[j].av = e.av[i]

\* Flat{ID, Title} into a zero EmbD{Base; Title} in strict mode: Flat has no
\* field named Base, yet the call succeeds and EmbD.Base.ID is Flat.ID.
C20_Witness ==
    /\ FieldByField /\ Exact
    /\ SourceType = "Flat" /\ DestType = "EmbD"
    /\ TypeFieldByName("Flat", "Base") = <<>>
    /\ heap0[dest.v] = Zero("EmbD")
    /\ err = NoErr
    /\ heap[dest.v] = <<<<SourceVal[1]>>, SourceVal[2]>>
    /\ SourceVal[1] # 0
    /\ \E k \in DOMAIN log : IsEmbeddedFieldCall(log[k]) /\ log[k].name = "Base"

\* The kinds of error: the errors of Map's own checks, the errors of a
\* mapping that can not be made, and a recovered panic.
ErrorKind(e) ==
    CASE e = NoErr -> "none"
      [] e \in {ErrTooManyOptions, ErrSourceNil, ErrDestNil, ErrDestNotPointer} -> "precondition"
      [] e \in {ErrRecovered, Panic} -> "fault"
      [] e = StackOverflow -> "crash"
      [] OTHER -> "mismatch"
\* The destination as the caller sees it in heap h.
DestView(h) ==
    IF dest.t # "nil" /\ Kind(dest.t) = "ptr" /\ dest.v # 0 THEN View(h, dest.t, dest.v) ELSE <<>>
\* Map on the arguments of the call, MapKeys listing keys the other way round.
MapInOtherOrder == Map(heap0, source, dest, options, ~rev)

\* C21: Map on the same arguments with the keys of source maps visited in
\* the other order returns an error of the same kind (or none in both runs)
\* and leaves the destination equal.
C21_Determinism ==
    (Returned /\ api = "Map") =>
       /\ ErrorKind(MapInOtherOrder.err) = ErrorKind(err)
       /\ DestView(MapInOtherOrder.h) = DestView(heap)

\* The boxed value x is the untyped nil or a nil pointer, map, slice or
\* channel.
IsBoxedNil(x) ==
    \/ x.t = "nil"
    \/ Kind(x.t) \in {"ptr", "map", "slice", "chan"} /\ x.v = 0

\* C22: for the source and the dest of every call, isAnyNil returns without
\* a panic, and returns true exactly for the untyped nil and for a nil
\* pointer, map, slice or channel.
C22_BoxedNilnessOracle ==
    pc # "idle" =>
       \A x \in {source, dest} :
          /\ ~IsAnyNil(x).panic
          /\ IsAnyNil(x).nil <=> IsBoxedNil(x)

\* Map on the arguments of the call in loose mode: with no option, and with
\* an option whose Exact is false.
MapWithNoOption == Map(heap0, source, dest, <<>>, rev)
MapWithLooseOption == Map(heap0, source, dest, <<OptionOf(FALSE)>>, rev)

\* C23: when Map with Exact set returns no error, Map on the same source
\* and the same initial destination with no option, or with Exact not set,
\* returns no error and leaves the destination equal.
C23_StrictSuccessImpliesLoose ==
    (Returned /\ api = "Map" /\ ValidCall /\ Exact /\ err = NoErr) =>
       /\ MapWithNoOption.err = NoErr
       /\ DestView(MapWithNoOption.h) = DestView(heap)
       /\ MapWithLooseOption.err = NoErr
       /\ DestView(MapWithLooseOption.h) = DestView(heap)

\* FlavorX into a FlavorY already holding values, strict mode, a source with
\* an empty Type and a Roles slice: the call succeeds and the destination
\* changed.
C23_Witness ==
    /\ FieldByField /\ Exact /\ api = "Map"
    /\ SourceType = "FlavorX" /\ DestType = "FlavorY"
    /\ SourceVal[1] = 0 /\ SourceVal[2] # 0
    /\ heap0[dest.v][1] # 0 /\ heap0[dest.v][2] # 0
    /\ err = NoErr
    /\ heap[dest.v][1] = 0
    /\ heap[dest.v][2] # heap0[dest.v][2]
    /\ DestView(MapWithNoOption.h) = DestView(heap)

\* The cells the source of the call reached when Map was called.
SourceCells == IF source.t = "nil" THEN {} ELSE Reach(heap0, source.t, source.v)
\* The cell the destination points to (0 for none), and that it is not one
\* of the cells the source reached.
DestCell == IF dest.t # "nil" /\ Kind(dest.t) = "ptr" THEN dest.v ELSE 0
DestApart == DestCell \notin SourceCells
\* Every cell the source reached holds what it held when Map was called.
SourceUntouched == \A a \in SourceCells : heap[a] = heap0[a]

\* C24 as stated: whatever the source and the destination, when Map has
\* returned every cell the source reached holds what it held before.
C24_SourceNeverWritten == Returned => SourceUntouched

\* C24 amended: when Map has returned, the only cell of the caller's heap
\* that differs is the destination's pointee, every other cell that changed
\* was made during the call; so the source and all it reached are as before
\* whenever the destination's pointee is not reached from the source.
C24_WritesOnlyToDestination ==
    Returned =>
       /\ Len(heap) >= Len(heap0)
       /\ \A a \in 1..Len(heap0) : a # DestCell => heap[a] = heap0[a]
       /\ DestApart => SourceUntouched

\* FlavorX with a two-element Roles slice into a zero FlavorY: the call
\* succeeds, makes cells (among them the slice of RoleY) and the source's
\* slice and its pointer are as before.
C24_Witness ==
    /\ FieldByField /\ DestApart
    /\ SourceType = "FlavorX" /\ DestType = "FlavorY"
    /\ SourceVal[2] # 0 /\ heap0[SourceVal[2]] # 0
    /\ Len(heap0[heap0[SourceVal[2]]]) = 2
    /\ err = NoErr
    /\ Len(heap) > Len(heap0)
    /\ heap[dest.v] # heap0[dest.v]
    /\ SourceCells # {} /\ SourceUntouched

\* The mapField call before call k of the log that left v in the field
\* named name of a struct of type dt and returned e.
FieldMappedBefore(k, dt, name, e, v) ==
    \E m \in 1..(k - 1) :
       /\ IsFieldCall(log[m])
       /\ log[m].dt = dt /\ log[m].name = name
       /\ log[m].err = e /\ log[m].av = v

\* The failed mapValues call e, call k of the log, on a struct destination
\* stopped at field i (0: before the first field): the fields after i are as
\* they were, field i is as its failed mapField call left it (as it was,
\* unless it is a struct), the fields before i as their mapField calls left
\* them.
StoppedAt(k, e, i) ==
    /\ \A j \in (i + 1)..NumField(e.dt) : e.av[j] = e.bv[j]
    /\ i > 0 => /\ FieldMappedBefore(k, e.dt, Field(e.dt, i).name, e.err, e.av[i])
                /\ Kind(Field(e.dt, i).type) # "struct" => e.av[i] = e.bv[i]
    /\ \A j \in 1..(i - 1) :
          FieldMappedBefore(k, e.dt, Field(e.dt, j).name, NoErr, e.av[j])

\* C25: a mapValues call that fails leaves a destination slot that is not a
\* struct (a pointer, a map, a slice, a scalar) holding what it held before
\* the call; a struct destination holds the fields before the failing one
\* as mapped, the fields after it as they were.
C25_AssignedOnlyOnSuccess ==
    Returned =>
       \A k \in DOMAIN log :
          LET e == log[k] IN
          (IsValuesCall(e) /\ e.err # NoErr) =>
             IF Kind(e.dt) = "struct"
             THEN \E i \in 0..NumField(e.dt) : StoppedAt(k, e, i)
             ELSE e.av = e.bv

\* ext.S{MapX: {"a": RoleX{Size: &n}}} into an ext.T whose MapX is set: the
\* call on the *int and the *string slot fails and leaves the slot nil, the
\* call on the maps fails and MapX is still the map it was.
C25_Witness ==
    /\ FieldByField
    /\ SourceType = "ext.S" /\ DestType = "ext.T"
    /\ SourceVal[1] # 0 /\ heap0[dest.v][1] # 0
    /\ err = ErrIncompatible
    /\ heap[dest.v][1] = heap0[dest.v][1]
    /\ heap[heap[dest.v][1]] = heap0[heap0[dest.v][1]]
    /\ \E k \in DOMAIN log :
          /\ IsValuesCall(log[k]) /\ log[k].err = ErrIncompatible
          /\ log[k].st = "*int" /\ log[k].dt = "*string"
          /\ log[k].sv # 0 /\ log[k].av = log[k].bv
    /\ \E k \in DOMAIN log :
          /\ IsValuesCall(log[k]) /\ log[k].err = ErrIncompatible
          /\ log[k].dt = "map[string]RoleW"
          /\ log[k].bv # 0 /\ log[k].av = log[k].bv
====
